---------------------------- MODULE Spec2Model ----------------------------
(***************************************************************************)
(* bcrypt-small: the padding-free bcrypt base64 codec (src/base64.rs) and  *)
(* the parser/formatter of the 60-byte "$2b$.." hash text (src/lib.rs).    *)
(*                                                                         *)
(* Bytes are integers 0..255, a character is its ASCII code, a slice is a  *)
(* sequence (offset k of the source is index k+1 here).                    *)
(***************************************************************************)
EXTENDS Integers, Sequences, FiniteSets

(***************************************************************************)
(* Bounds of the model.                                                    *)
(***************************************************************************)
\* longest raw input built byte by byte for encode
MaxBytes == 4
\* longest text built character by character for decode
MaxChars == 5
\* most edits applied to a formatted hash text before it is parsed
MaxEdits == 2

(***************************************************************************)
(* u8 arithmetic.                                                          *)
(***************************************************************************)
Pow2(n) == IF n = 0 THEN 1 ELSE IF n = 1 THEN 2 ELSE IF n = 2 THEN 4
           ELSE IF n = 3 THEN 8 ELSE IF n = 4 THEN 16 ELSE IF n = 5 THEN 32
           ELSE IF n = 6 THEN 64 ELSE IF n = 7 THEN 128 ELSE 256

\* x >> n on u8
Shr(x, n) == x \div Pow2(n)

\* x << n on u8: the bits shifted out of the byte are lost
Shl(x, n) == (x * Pow2(n)) % 256

\* x & y, bit by bit from the lowest
RECURSIVE BitAnd(_, _)
BitAnd(x, y) ==
    IF x = 0 \/ y = 0 THEN 0
    ELSE (x % 2) * (y % 2) + 2 * BitAnd(x \div 2, y \div 2)

\* x | y, bit by bit from the lowest
RECURSIVE BitOr(_, _)
BitOr(x, y) ==
    IF x = 0 THEN y
    ELSE IF y = 0 THEN x
    ELSE (IF (x % 2) + (y % 2) > 0 THEN 1 ELSE 0) + 2 * BitOr(x \div 2, y \div 2)

\* vec![0_u8; n] / [0_u8; n]
Zeros(n) == [i \in 1..n |-> 0]

(***************************************************************************)
(* base64.rs: the alphabet and its inverse table.                          *)
(***************************************************************************)
\* b"./ABCDEFGHIJKLMNOPQRSTUVWXYZabcdefghijklmnopqrstuvwxyz0123456789"
ALPHABET ==
    << 46, 47,
       65, 66, 67, 68, 69, 70, 71, 72, 73, 74, 75, 76, 77,
       78, 79, 80, 81, 82, 83, 84, 85, 86, 87, 88, 89, 90,
       97, 98, 99, 100, 101, 102, 103, 104, 105, 106, 107, 108, 109,
       110, 111, 112, 113, 114, 115, 116, 117, 118, 119, 120, 121, 122,
       48, 49, 50, 51, 52, 53, 54, 55, 56, 57 >>

REVERSE_ALPHABET ==
    << 0, 1,
       54, 55, 56, 57, 58, 59, 60, 61, 62, 63,
       -1, -1, -1, -1, -1, -1, -1,
       2, 3, 4, 5, 6, 7, 8, 9, 10, 11, 12, 13, 14, 15, 16, 17, 18, 19, 20,
       21, 22, 23, 24, 25, 26, 27,
       -1, -1, -1, -1, -1, -1,
       28, 29, 30, 31, 32, 33, 34, 35, 36, 37, 38, 39, 40, 41, 42, 43, 44,
       45, 46, 47, 48, 49, 50, 51, 52, 53 >>

char_at(index) == ALPHABET[index + 1]

\* Result<u8, Base64Error>
IndexOk(i) == [ok |-> TRUE, val |-> i]
IndexErr == [ok |-> FALSE, val |-> 0]

index_for(c) ==
    LET k == (c - 46) % 256     \* c.wrapping_sub(b'.')
    IN  IF k >= Len(REVERSE_ALPHABET) THEN IndexErr
        ELSE IF REVERSE_ALPHABET[k + 1] = -1 THEN IndexErr
        ELSE IndexOk(REVERSE_ALPHABET[k + 1])

(***************************************************************************)
(* The output side of encode and decode: `to.iter_mut()`, whose next()     *)
(* hands out the positions of `to` in order and is None past the end, so   *)
(* that `.unwrap()` panics there.  `result` is the value decode returns    *)
(* ("Ok" while no error has been met).                                     *)
(***************************************************************************)
IterMut(to) == [to |-> to, cursor |-> 0, panic |-> FALSE, result |-> "Ok"]

\* *to_iter.next().unwrap() = v
Put(st, v) ==
    IF st.panic \/ st.result # "Ok" THEN st
    ELSE IF st.cursor >= Len(st.to) THEN [st EXCEPT !.panic = TRUE]
    ELSE [st EXCEPT !.to[st.cursor + 1] = v, !.cursor = st.cursor + 1]

\* a variant of PutEncodedChunk: the third character misses the top two bits
\* of b2, as in the two-byte remainder
PutEncodedChunkNoCarry(st, b0, b1, b2) ==
    Put(Put(Put(Put(st,
        char_at(Shr(b0, 2))),
        char_at(BitOr(Shl(BitAnd(b0, 3), 4), Shr(b1, 4)))),
        char_at(Shl(BitAnd(b1, 15), 2))),
        char_at(BitAnd(b2, 63)))

\* one full chunk of encode's loop
PutEncodedChunk(st, b0, b1, b2) ==
    Put(Put(Put(Put(st,
        char_at(Shr(b0, 2))),
        char_at(BitOr(Shl(BitAnd(b0, 3), 4), Shr(b1, 4)))),
        char_at(BitOr(Shl(BitAnd(b1, 15), 2), Shr(b2, 6)))),
        char_at(BitAnd(b2, 63)))

RECURSIVE EncodeChunks(_, _, _)
EncodeChunks(from, k, st) ==
    IF 3 * k + 3 > Len(from) THEN st
    ELSE EncodeChunks(from, k + 1,
            PutEncodedChunk(st, from[3 * k + 1], from[3 * k + 2], from[3 * k + 3]))

\* a variant of PutEncodedRemainder1: a third character is written, as a
\* padded base64 would
PutEncodedRemainder1Padded(st, b0) ==
    Put(Put(Put(st,
        char_at(Shr(b0, 2))),
        char_at(Shl(BitAnd(b0, 3), 4))),
        char_at(0))

\* the remainder with one byte
PutEncodedRemainder1(st, b0) ==
    Put(Put(st,
        char_at(Shr(b0, 2))),
        char_at(Shl(BitAnd(b0, 3), 4)))

\* the remainder with two bytes
PutEncodedRemainder2(st, b0, b1) ==
    Put(Put(Put(st,
        char_at(Shr(b0, 2))),
        char_at(BitOr(Shl(BitAnd(b0, 3), 4), Shr(b1, 4)))),
        char_at(Shl(BitAnd(b1, 15), 2)))

encode(from, to) ==
    LET n    == Len(from)
        rem  == n % 3
        base == n - rem
        st   == EncodeChunks(from, 0, IterMut(to))
    IN  CASE rem = 0 -> st
          [] rem = 1 -> PutEncodedRemainder1(st, from[base + 1])
          [] rem = 2 -> PutEncodedRemainder2(st, from[base + 1], from[base + 2])

\* the first `?` that fails returns Err(InvalidCharacter)
Fail(st, err) == IF st.panic \/ st.result # "Ok" THEN st ELSE [st EXCEPT !.result = err]

\* one full chunk of decode's loop
PutDecodedChunk(st, c0, c1, c2, c3) ==
    LET i0 == index_for(c0)
        i1 == index_for(c1)
        i2 == index_for(c2)
        i3 == index_for(c3)
    IN  IF ~(i0.ok /\ i1.ok /\ i2.ok /\ i3.ok) THEN Fail(st, "InvalidCharacter")
        ELSE Put(Put(Put(st,
                BitOr(Shl(i0.val, 2), Shr(i1.val, 4))),
                BitOr(Shl(i1.val, 4), Shr(i2.val, 2))),
                BitOr(Shl(i2.val, 6), i3.val))

RECURSIVE DecodeChunks(_, _, _)
DecodeChunks(from, k, st) ==
    IF 4 * k + 4 > Len(from) THEN st
    ELSE DecodeChunks(from, k + 1,
            PutDecodedChunk(st, from[4 * k + 1], from[4 * k + 2],
                                from[4 * k + 3], from[4 * k + 4]))

\* a variant of PutDecodedRemainder1: the character is looked up first
PutDecodedRemainder1Checked(st, c0) ==
    IF ~index_for(c0).ok THEN Fail(st, "InvalidCharacter") ELSE Fail(st, "Length")

\* the remainder with one character
PutDecodedRemainder1(st, c0) == Fail(st, "Length")

\* a variant of PutDecodedRemainder2: the four bits that are dropped must
\* be zero
PutDecodedRemainder2Strict(st, c0, c1) ==
    LET i0 == index_for(c0)
        i1 == index_for(c1)
    IN  IF ~(i0.ok /\ i1.ok) THEN Fail(st, "InvalidCharacter")
        ELSE IF i1.val % 16 # 0 THEN Fail(st, "InvalidCharacter")
        ELSE Put(st, BitOr(Shl(i0.val, 2), Shr(i1.val, 4)))

\* the remainder with two characters
PutDecodedRemainder2(st, c0, c1) ==
    LET i0 == index_for(c0)
        i1 == index_for(c1)
    IN  IF ~(i0.ok /\ i1.ok) THEN Fail(st, "InvalidCharacter")
        ELSE Put(st, BitOr(Shl(i0.val, 2), Shr(i1.val, 4)))

\* the remainder with three characters
PutDecodedRemainder3(st, c0, c1, c2) ==
    LET i0 == index_for(c0)
        i1 == index_for(c1)
        i2 == index_for(c2)
    IN  IF ~(i0.ok /\ i1.ok /\ i2.ok) THEN Fail(st, "InvalidCharacter")
        ELSE Put(Put(st,
                BitOr(Shl(i0.val, 2), Shr(i1.val, 4))),
                BitOr(Shl(i1.val, 4), Shr(i2.val, 2)))

decode(from, to) ==
    LET n    == Len(from)
        rem  == n % 4
        base == n - rem
        st   == DecodeChunks(from, 0, IterMut(to))
    IN  CASE rem = 0 -> st
          [] rem = 1 -> PutDecodedRemainder1(st, from[base + 1])
          [] rem = 2 -> PutDecodedRemainder2(st, from[base + 1], from[base + 2])
          [] rem = 3 -> PutDecodedRemainder3(st, from[base + 1], from[base + 2],
                                                 from[base + 3])

(***************************************************************************)
(* lib.rs: the Hash record, its formatter and its parser.                  *)
(***************************************************************************)
FORMATTED_HASH_SIZE == 60

\* &s[lo..hi]
Slice(s, lo, hi) == SubSeq(s, lo + 1, hi)

\* buf[lo..lo + len(src)] overwritten with src
CopyInto(buf, lo, src) ==
    [i \in 1..Len(buf) |->
        IF i > lo /\ i <= lo + Len(src) THEN src[i - lo] ELSE buf[i]]

\* Option<T>
Some(v) == [some |-> TRUE, val |-> v]
None(v) == [some |-> FALSE, val |-> v]

\* bcrypt_only::Salt, which wraps the 16 bytes it is made from
\* (tests.rs reads them back with to_bytes)
Salt_from_bytes(b) == [bytes |-> b]
Salt_to_bytes(salt) == salt.bytes

\* bcrypt_only::WorkFactor
WorkFactorOf(n) == [log_rounds |-> n]

\* WorkFactor::exp: the log-rounds bcrypt supports, EXP4 .. EXP31
WorkFactor_exp(n) ==
    IF n >= 4 /\ n <= 31 THEN Some(WorkFactorOf(n)) ELSE None(WorkFactorOf(0))

\* the placeholder in a failed result, and before a record exists
NoHash == [work_factor |-> WorkFactorOf(0), salt |-> Salt_from_bytes(<<>>),
           hash |-> <<>>]

IsDigit(c) == c >= 48 /\ c <= 57

RECURSIVE DigitsValue(_, _)
DigitsValue(ds, acc) ==
    IF ds = <<>> THEN acc
    ELSE DigitsValue(Tail(ds), acc * 10 + (Head(ds) - 48))

\* rs.parse::<u32>(): an optional '+', then one or more decimal digits
ParseU32(rs) ==
    IF rs = <<>> THEN None(0)
    ELSE IF Len(rs) = 1 /\ (rs[1] = 43 \/ rs[1] = 45) THEN None(0)
    ELSE LET digits == IF rs[1] = 43 THEN Tail(rs) ELSE rs
         IN  IF \A i \in 1..Len(digits) : IsDigit(digits[i])
             THEN Some(DigitsValue(digits, 0))
             ELSE None(0)

\* str::is_char_boundary
IsCharBoundary(s, k) ==
    \/ k = 0
    \/ k = Len(s)
    \/ k < Len(s) /\ ~(s[k + 1] >= 128 /\ s[k + 1] < 192)

\* s.get(lo..hi)
StrGet(s, lo, hi) ==
    IF lo <= hi /\ hi <= Len(s) /\ IsCharBoundary(s, lo) /\ IsCharBoundary(s, hi)
    THEN Some(Slice(s, lo, hi))
    ELSE None(<<>>)

\* s.starts_with(p)
StartsWith(s, p) == Len(s) >= Len(p) /\ SubSeq(s, 1, Len(p)) = p

\* "$2a$", "$2b$", "$2y$"
Prefix2a == <<36, 50, 97, 36>>
Prefix2b == <<36, 50, 98, 36>>
Prefix2y == <<36, 50, 121, 36>>

\* a variant of SupportedPrefix: "$2y$" is not accepted
SupportedPrefixNo2y(s) == StartsWith(s, Prefix2a) \/ StartsWith(s, Prefix2b)

\* the prefixes from_str accepts
SupportedPrefix(s) ==
    ~(~StartsWith(s, Prefix2a) /\ ~StartsWith(s, Prefix2b) /\ ~StartsWith(s, Prefix2y))

\* a variant of ParseWorkFactor: the field is read with its separator,
\* which must be '$'
ParseWorkFactorWithSeparator(s) ==
    LET rs == StrGet(s, 4, 7)
    IN  IF ~rs.some THEN None(WorkFactorOf(0))
        ELSE IF rs.val[3] # 36 THEN None(WorkFactorOf(0))
        ELSE LET n == ParseU32(SubSeq(rs.val, 1, 2))
             IN  IF ~n.some THEN None(WorkFactorOf(0))
                 ELSE WorkFactor_exp(n.val)

\* the work factor of from_str: get, parse, WorkFactor::exp
ParseWorkFactor(s) ==
    LET rs == StrGet(s, 4, 6)
    IN  IF ~rs.some THEN None(WorkFactorOf(0))
        ELSE LET n == ParseU32(rs.val)
             IN  IF ~n.some THEN None(WorkFactorOf(0))
                 ELSE WorkFactor_exp(n.val)

\* a variant of WorkFactorDigits: the two digits change places
WorkFactorDigitsSwapped(lr) == <<48 + ((lr % 10) % 256), 48 + ((lr \div 10) % 256)>>

\* b'0' + (log_rounds / 10) as u8, b'0' + (log_rounds % 10) as u8
WorkFactorDigits(lr) == <<48 + ((lr \div 10) % 256), 48 + ((lr % 10) % 256)>>

\* a variant of FormattedPrefix: "$2a$"
FormattedPrefix2a == Prefix2a

\* the prefix to_formatted writes, b"$2b$"
FormattedPrefix == Prefix2b

\* Hash::to_formatted; `panic` is a panic of one of its encode calls
to_formatted(h) ==
    LET lr   == h.work_factor.log_rounds
        f0   == Zeros(60)
        f1   == CopyInto(f0, 0, FormattedPrefix)
        f2   == [f1 EXCEPT ![5] = WorkFactorDigits(lr)[1],
                           ![6] = WorkFactorDigits(lr)[2],
                           ![7] = 36]
        salt == encode(Salt_to_bytes(h.salt), Slice(f2, 7, 29))
        f3   == CopyInto(f2, 7, salt.to)
        hash == encode(h.hash, Slice(f3, 29, 60))
        f4   == CopyInto(f3, 29, hash.to)
    IN  [bytes |-> f4, panic |-> salt.panic \/ hash.panic]

\* Result<Hash, ParseError>; kind "Panic" is a panic of one of the decode calls
ParseOk(h) == [kind |-> "Ok", value |-> h]
ParseErr(e) == [kind |-> e, value |-> NoHash]

\* a variant of from_str: the digest is decoded before the salt
from_str_HashFirst(s) ==
    IF Len(s) # 60 THEN ParseErr("Length")
    ELSE IF ~SupportedPrefix(s) THEN ParseErr("Prefix")
    ELSE LET work_factor == ParseWorkFactor(s)
         IN  IF ~work_factor.some THEN ParseErr("WorkFactor")
             ELSE LET hash == decode(Slice(s, 29, 60), Zeros(23))
                  IN  IF hash.panic THEN ParseErr("Panic")
                      ELSE IF hash.result # "Ok" THEN ParseErr("Hash")
                      ELSE LET salt == decode(Slice(s, 7, 29), Zeros(16))
                           IN  IF salt.panic THEN ParseErr("Panic")
                               ELSE IF salt.result # "Ok" THEN ParseErr("Salt")
                               ELSE ParseOk([work_factor |-> work_factor.val,
                                             salt |-> Salt_from_bytes(salt.to),
                                             hash |-> hash.to])

\* <Hash as FromStr>::from_str
from_str(s) ==
    IF Len(s) # 60 THEN ParseErr("Length")
    ELSE IF ~SupportedPrefix(s) THEN ParseErr("Prefix")
    ELSE LET work_factor == ParseWorkFactor(s)
         IN  IF ~work_factor.some THEN ParseErr("WorkFactor")
             ELSE LET salt == decode(Slice(s, 7, 29), Zeros(16))
                  IN  IF salt.panic THEN ParseErr("Panic")
                      ELSE IF salt.result # "Ok" THEN ParseErr("Salt")
                      ELSE LET hash == decode(Slice(s, 29, 60), Zeros(23))
                           IN  IF hash.panic THEN ParseErr("Panic")
                               ELSE IF hash.result # "Ok" THEN ParseErr("Hash")
                               ELSE ParseOk([work_factor |-> work_factor.val,
                                             salt |-> Salt_from_bytes(salt.to),
                                             hash |-> hash.to])

(***************************************************************************)
(* Inputs.                                                                 *)
(***************************************************************************)
\* raw bytes tried one at a time: 0x00, 0xff, 0x5a, 0xa5
ByteSamples == {0, 255, 90, 165}

\* characters tried one at a time: '.', '9', 'U' (in the alphabet),
\* '?' (a gap of the table), '-' (below '.'), '{' (past 'z')
CharSamples == {46, 57, 85, 63, 45, 123}

\* n bytes that differ from place to place
Pattern(n, a, b) == [i \in 1..n |-> (a * i + b) % 256]

\* <<a, b>> of the patterns used for long inputs
Seeds == {<<37, 11>>, <<101, 200>>, <<0, 255>>}

\* the log-rounds WorkFactor::exp accepts
LogRounds == {n \in 0..99 : WorkFactor_exp(n).some}

\* the stored hash the tests parse and then damage by hand:
\* "$2b$04$cVWp4XaNU8a4v1uMRum2SO026BWLIoQMD/TXg5uZV.0P.uO8m3YEm"
StoredText ==
    << 36, 50, 98, 36, 48, 52, 36, 99, 86, 87, 112, 52,
       88, 97, 78, 85, 56, 97, 52, 118, 49, 117, 77, 82,
       117, 109, 50, 83, 79, 48, 50, 54, 66, 87, 76, 73,
       111, 81, 77, 68, 47, 84, 88, 103, 53, 117, 90, 86,
       46, 48, 80, 46, 117, 79, 56, 109, 51, 89, 69, 109 >>

\* offsets of the stored text that get edited: the prefix letter, the two
\* work-factor characters, the separator, the first and the last salt
\* character, the first and the last digest character
EditOffsets == {2, 4, 5, 6, 7, 28, 29, 59}

\* bytes written by an edit: 'a', 'x', '1', '4' (in the alphabet), '+' (not)
EditBytes == {97, 120, 49, 52, 43}

(***************************************************************************)
(* State: one caller, who either drives the codec (from, encoded, chars,   *)
(* decoded), or formats a Hash and parses the text back, or takes a stored *)
(* text, edits it and parses it (hash, text, edits, parsed, formatted).    *)
(***************************************************************************)
VARIABLES
    phase,      \* where the caller is
    from,       \* the raw bytes handed to encode
    encoded,    \* what encode left: its buffer, cursor and panic flag
    chars,      \* the text handed to decode
    decoded,    \* what decode left, with its result
    hash,       \* the Hash record built by the caller
    text,       \* the text handed to from_str
    edits,      \* how many edits the stored text went through
    parsed,     \* the result of from_str
    formatted   \* what the last to_formatted returned

vars == <<phase, from, encoded, chars, decoded, hash, text, edits, parsed, formatted>>

codecVars == <<from, encoded, chars, decoded>>
recordVars == <<hash, text, edits, parsed, formatted>>

Idle == [to |-> <<>>, cursor |-> 0, panic |-> FALSE, result |-> "Idle"]
NotParsed == [kind |-> "None", value |-> NoHash]
NotFormatted == [bytes |-> <<>>, panic |-> FALSE]

Init ==
    /\ phase = "start"
    /\ from = <<>>
    /\ encoded = Idle
    /\ chars = <<>>
    /\ decoded = Idle
    /\ hash = NoHash
    /\ text = <<>>
    /\ edits = 0
    /\ parsed = NotParsed
    /\ formatted = NotFormatted

(***************************************************************************)
(* The codec, driven as base64/tests.rs drives it.                         *)
(***************************************************************************)
PushByte(b) ==
    /\ phase \in {"start", "bytes"}
    /\ Len(from) < MaxBytes
    /\ from' = Append(from, b)
    /\ phase' = "bytes"
    /\ UNCHANGED <<encoded, chars, decoded>>
    /\ UNCHANGED recordVars

\* a salt-sized or digest-sized input
FillBytes(n, seed) ==
    /\ phase = "start"
    /\ from' = Pattern(n, seed[1], seed[2])
    /\ phase' = "bytes"
    /\ UNCHANGED <<encoded, chars, decoded>>
    /\ UNCHANGED recordVars

\* tests::encode: a buffer of (len * 4 + 2) / 3 zeros, then super::encode
Encode ==
    /\ phase \in {"start", "bytes"}
    /\ encoded' = encode(from, Zeros((Len(from) * 4 + 2) \div 3))
    /\ phase' = "encoded"
    /\ UNCHANGED <<from, chars, decoded>>
    /\ UNCHANGED recordVars

\* round_trip: the encoded text is what gets decoded
TakeEncoded ==
    /\ phase = "encoded"
    /\ ~encoded.panic
    /\ chars' = encoded.to
    /\ phase' = "chars"
    /\ UNCHANGED <<from, encoded, decoded>>
    /\ UNCHANGED recordVars

\* a text of the caller's own, such as b"a?cd"
PushChar(c) ==
    /\ phase \in {"start", "chars"}
    /\ encoded = Idle
    /\ Len(chars) < MaxChars
    /\ chars' = Append(chars, c)
    /\ phase' = "chars"
    /\ UNCHANGED <<from, encoded, decoded>>
    /\ UNCHANGED recordVars

\* tests::decode: a buffer of len * 3 / 4 zeros, then super::decode
Decode ==
    /\ phase \in {"start", "chars"}
    /\ decoded' = decode(chars, Zeros((Len(chars) * 3) \div 4))
    /\ phase' = "decoded"
    /\ UNCHANGED <<from, encoded, chars>>
    /\ UNCHANGED recordVars

(***************************************************************************)
(* The record.                                                             *)
(***************************************************************************)
\* Hash { work_factor, salt: Salt::from_bytes(..), hash }, with salt and
\* digest bytes that differ from one work factor to the next
NewHash(lr) ==
    /\ phase = "start"
    /\ hash' = [work_factor |-> WorkFactor_exp(lr).val,
                salt |-> Salt_from_bytes(Pattern(16, 2 * lr + 35, lr)),
                hash |-> Pattern(23, 4 * lr + 101, 255 - lr)]
    /\ phase' = "hash"
    /\ UNCHANGED <<text, edits, parsed, formatted>>
    /\ UNCHANGED codecVars

\* hash.to_formatted(), kept as the text
Format ==
    /\ phase = "hash"
    /\ formatted' = to_formatted(hash)
    /\ text' = formatted'.bytes
    /\ phase' = IF formatted'.panic THEN "panic" ELSE "text"
    /\ UNCHANGED <<hash, edits, parsed>>
    /\ UNCHANGED codecVars

\* the stored hash text taken as it is
LoadStored ==
    /\ phase = "start"
    /\ text' = StoredText
    /\ phase' = "stored"
    /\ UNCHANGED <<hash, edits, parsed, formatted>>
    /\ UNCHANGED codecVars

\* one byte of the stored text replaced
Edit(k, c) ==
    /\ phase = "stored"
    /\ edits < MaxEdits
    /\ k < Len(text)
    /\ text[k + 1] # c
    /\ text' = [text EXCEPT ![k + 1] = c]
    /\ edits' = edits + 1
    /\ UNCHANGED <<phase, hash, parsed, formatted>>
    /\ UNCHANGED codecVars

\* the last byte dropped
Truncate ==
    /\ phase = "stored"
    /\ edits < MaxEdits
    /\ text # <<>>
    /\ text' = SubSeq(text, 1, Len(text) - 1)
    /\ edits' = edits + 1
    /\ UNCHANGED <<phase, hash, parsed, formatted>>
    /\ UNCHANGED codecVars

\* one byte added at the end
Extend(c) ==
    /\ phase = "stored"
    /\ edits < MaxEdits
    /\ text' = Append(text, c)
    /\ edits' = edits + 1
    /\ UNCHANGED <<phase, hash, parsed, formatted>>
    /\ UNCHANGED codecVars

\* text.parse::<Hash>()
Parse ==
    /\ phase \in {"start", "text", "stored"}
    /\ parsed' = from_str(text)
    /\ phase' = IF parsed'.kind = "Panic" THEN "panic" ELSE "parsed"
    /\ UNCHANGED <<hash, text, edits, formatted>>
    /\ UNCHANGED codecVars

\* parse_round_trip: the parsed record formatted again
Reformat ==
    /\ phase = "parsed"
    /\ parsed.kind = "Ok"
    /\ formatted' = to_formatted(parsed.value)
    /\ phase' = IF formatted'.panic THEN "panic" ELSE "formatted"
    /\ UNCHANGED <<hash, text, edits, parsed>>
    /\ UNCHANGED codecVars

Next ==
    \/ \E b \in ByteSamples : PushByte(b)
    \/ \E n \in {16, 23}, seed \in Seeds : FillBytes(n, seed)
    \/ Encode
    \/ TakeEncoded
    \/ \E c \in CharSamples : PushChar(c)
    \/ Decode
    \/ \E lr \in LogRounds : NewHash(lr)
    \/ Format
    \/ LoadStored
    \/ \E k \in EditOffsets, c \in EditBytes : Edit(k, c)
    \/ Truncate
    \/ \E c \in EditBytes : Extend(c)
    \/ Parse
    \/ Reformat

Spec == Init /\ [][Next]_vars

(***************************************************************************)
(* Properties.                                                             *)
(***************************************************************************)
AlphabetChars == {ALPHABET[i] : i \in 1..Len(ALPHABET)}

AllInAlphabet(cs) == \A i \in 1..Len(cs) : cs[i] \in AlphabetChars

\* the text with the byte at offset k replaced
WithByte(s, k, c) == [s EXCEPT ![k + 1] = c]

\* the text with its first four bytes replaced
WithPrefix(s, p) == p \o Slice(s, 4, Len(s))

\* the decode of the text that encode produced has run
RoundTripDone == phase = "decoded" /\ encoded # Idle

\* C1: a byte sequence encoded into ceil(len * 4 / 3) characters and decoded
\* again into floor(len * 3 / 4) bytes comes back unchanged, with Ok.
C1_CodecRoundTrip ==
    RoundTripDone =>
        /\ Len(encoded.to) * 3 >= Len(from) * 4
        /\ Len(encoded.to) * 3 < Len(from) * 4 + 3
        /\ chars = encoded.to
        /\ Len(decoded.to) = (Len(chars) * 3) \div 4
        /\ ~decoded.panic
        /\ decoded.result = "Ok"
        /\ decoded.to = from

\* a digest-sized input with bytes of every kind has made the round trip
C1_Witness ==
    /\ RoundTripDone
    /\ Len(from) = 23
    /\ Len(chars) = 31
    /\ \E i \in 1..Len(from) : from[i] >= 128
    /\ decoded.to = from

\* the parsed text starts with "$2b$" and its record was formatted again
ReformattedFrom2b ==
    /\ phase = "formatted"
    /\ parsed.kind = "Ok"
    /\ StartsWith(text, Prefix2b)

\* the value a character of the alphabet stands for
IndexOf(c) == index_for(c).val

\* the text is the one to_formatted writes for its record: two digits, the
\* '$' separator, and zero bits where decode ignores them
CanonicalText(s) ==
    /\ IsDigit(s[5])
    /\ IsDigit(s[6])
    /\ s[7] = 36
    /\ IndexOf(s[29]) % 16 = 0
    /\ IndexOf(s[60]) % 4 = 0

\* C2, as stated: every text with the "$2b$" prefix that parses is reproduced
\* byte for byte by to_formatted of the parsed record.
C2_TextRoundTrip_Original == ReformattedFrom2b => formatted.bytes = text

\* C2, amended: a text with the "$2b$" prefix that parses is reproduced byte
\* for byte exactly when bytes 4..6 are two digits, byte 6 is '$' and the low
\* 4 bits of the last salt character and the low 2 bits of the last digest
\* character are zero; the output is always 60 bytes that parse to the same
\* record.
C2_TextRoundTrip ==
    ReformattedFrom2b =>
        /\ ~formatted.panic
        /\ Len(formatted.bytes) = FORMATTED_HASH_SIZE
        /\ (formatted.bytes = text <=> CanonicalText(text))
        /\ from_str(formatted.bytes) = parsed

\* an edited text that still is canonical has been parsed and reproduced
C2_Witness ==
    /\ ReformattedFrom2b
    /\ edits > 0
    /\ formatted.bytes = text

\* the text is what to_formatted wrote for the caller's record, and it was parsed
ParsedOwnText == phase \in {"parsed", "formatted"} /\ hash # NoHash /\ edits = 0

\* C3: to_formatted of a record with a supported work factor, a 16-byte salt
\* and a 23-byte digest is 60 bytes that from_str parses into the same record.
C3_RecordRoundTrip ==
    ParsedOwnText =>
        /\ Len(text) = FORMATTED_HASH_SIZE
        /\ parsed.kind = "Ok"
        /\ parsed.value.work_factor = hash.work_factor
        /\ Salt_to_bytes(parsed.value.salt) = Salt_to_bytes(hash.salt)
        /\ parsed.value.hash = hash.hash

\* the record with the largest work factor came back from its own text
C3_Witness ==
    /\ ParsedOwnText
    /\ hash.work_factor.log_rounds = 31
    /\ Len(Salt_to_bytes(hash.salt)) = 16
    /\ Len(hash.hash) = 23
    /\ parsed.value = hash

\* a 60-byte text was parsed
Parsed60 == phase = "parsed" /\ Len(text) = FORMATTED_HASH_SIZE

\* C4: three 60-byte texts that agree from offset 4 on and start with
\* "$2a$", "$2b$" and "$2y$" get the same outcome from from_str.
C4_PrefixEquivalence ==
    Parsed60 =>
        /\ from_str(WithPrefix(text, Prefix2a)) = from_str(WithPrefix(text, Prefix2b))
        /\ from_str(WithPrefix(text, Prefix2y)) = from_str(WithPrefix(text, Prefix2b))
        /\ SupportedPrefix(text) => parsed = from_str(WithPrefix(text, Prefix2y))

\* a "$2a$" text has parsed into a record
C4_Witness ==
    /\ Parsed60
    /\ StartsWith(text, Prefix2a)
    /\ parsed.kind = "Ok"
    /\ from_str(WithPrefix(text, Prefix2y)) = parsed

\* decode has run on a text whose length is 1 modulo 4
DecodedOddLength == phase = "decoded" /\ Len(chars) % 4 = 1

\* C5, as stated: decode of an input whose length is 1 modulo 4 returns
\* Err(Length), whatever its bytes.
C5_InvalidLength_Original == DecodedOddLength => decoded.result = "Length"

\* C5, amended: decode of an input whose length is 1 modulo 4 never returns
\* Ok: it returns Err(Length) when every character of the complete groups of
\* four is in the alphabet, whatever the last character, and
\* Err(InvalidCharacter) otherwise.
C5_InvalidLength ==
    DecodedOddLength =>
        /\ ~decoded.panic
        /\ decoded.result =
              IF AllInAlphabet(SubSeq(chars, 1, Len(chars) - 1))
              THEN "Length" ELSE "InvalidCharacter"

\* five characters, the last one outside the alphabet, were refused for
\* their length
C5_Witness ==
    /\ DecodedOddLength
    /\ Len(chars) = 5
    /\ chars[5] \notin AlphabetChars
    /\ decoded.result = "Length"

\* bytes 4..6 are two decimal digits of a work factor WorkFactor::exp accepts
TwoDigitWorkFactor(s) ==
    /\ IsDigit(s[5])
    /\ IsDigit(s[6])
    /\ WorkFactor_exp((s[5] - 48) * 10 + (s[6] - 48)).some

\* C6, as stated: a 60-byte text with a supported prefix fails with
\* WorkFactor whenever bytes 4..6 are not two decimal digits of a supported
\* work factor, and gets past that step only when they are.
C6_WorkFactorRejection ==
    Parsed60 /\ SupportedPrefix(text) =>
        (parsed.kind = "WorkFactor" <=> ~TwoDigitWorkFactor(text))

\* the salt and digest fields of a text
SaltField(s) == Slice(s, 7, 29)
DigestField(s) == Slice(s, 29, 60)

SameKeptBits(c, ignored) ==
    {d \in AlphabetChars : IndexOf(d) \div Pow2(ignored) = IndexOf(c) \div Pow2(ignored)}

\* the bits of the last character that decode ignores
IgnoredBits(n) == IF n % 4 = 2 THEN 4 ELSE IF n % 4 = 3 THEN 2 ELSE 0

\* decode has run on characters of the alphabet with a last group of 2 or 3
DecodedPartialGroup ==
    /\ phase = "decoded"
    /\ Len(chars) % 4 \in {2, 3}
    /\ AllInAlphabet(chars)

\* C8: the low 4 bits of the last character of a 2-character last group, and
\* the low 2 bits of that of a 3-character one, do not change what decode
\* returns; so 16 last salt characters and 4 last digest characters parse to
\* the same record.
C8_DecodeLeniency ==
    /\ DecodedPartialGroup =>
        /\ decoded.result = "Ok"
        /\ \A d \in SameKeptBits(chars[Len(chars)], IgnoredBits(Len(chars))) :
              decode(WithByte(chars, Len(chars) - 1, d), Zeros(Len(decoded.to))) = decoded
    /\ Parsed60 /\ parsed.kind = "Ok" =>
        /\ Cardinality(SameKeptBits(text[29], 4)) = 16
        /\ Cardinality(SameKeptBits(text[60], 2)) = 4
        /\ \A d \in SameKeptBits(text[29], 4) : from_str(WithByte(text, 28, d)) = parsed
        /\ \A d \in SameKeptBits(text[60], 2) : from_str(WithByte(text, 59, d)) = parsed

\* a text whose last salt character has ignored bits set has parsed
C8_Witness ==
    /\ Parsed60
    /\ parsed.kind = "Ok"
    /\ IndexOf(text[29]) % 16 # 0
    /\ IndexOf(text[60]) % 4 # 0

\* C9: with the output buffer sized ceil(n * 4 / 3) for encode and
\* floor(n * 3 / 4) for decode the cursor never passes the end of the buffer;
\* an operation that completes without error has written every position,
\* encode with characters of the alphabet; from_str and to_formatted, which
\* convert 16 <-> 22 and 23 <-> 31, do not panic.
C9_NoPanic ==
    /\ phase # "panic"
    /\ parsed.kind # "Panic"
    /\ ~formatted.panic
    /\ encoded # Idle =>
        /\ ~encoded.panic
        /\ encoded.cursor = Len(encoded.to)
        /\ AllInAlphabet(encoded.to)
    /\ decoded # Idle =>
        /\ ~decoded.panic
        /\ decoded.cursor <= Len(decoded.to)
        /\ decoded.result = "Ok" => decoded.cursor = Len(decoded.to)

\* a salt-sized input was encoded into 22 characters and decoded into 16 bytes
C9_Witness ==
    /\ RoundTripDone
    /\ Len(from) = 16
    /\ encoded.cursor = 22
    /\ decoded.cursor = 16

\* bytes 0..127
Ascii == 0..127

\* C10: from_str does not look at the byte at offset 6: texts that differ
\* only there get the same outcome, and to_formatted writes '$' there.
C10_SeparatorIgnored ==
    /\ Parsed60 => \A c \in Ascii : from_str(WithByte(text, 6, c)) = parsed
    /\ phase = "formatted" => formatted.bytes[7] = 36

\* a text with another byte than '$' at offset 6 has parsed, and was
\* formatted with '$'
C10_Witness ==
    /\ phase = "formatted"
    /\ text[7] # 36
    /\ parsed.kind = "Ok"
    /\ formatted.bytes[7] = 36

=============================================================================
